---- MODULE Spec2Model ----
(***************************************************************************)
(* Model of the vacancy-message bots of R0NFY/mch-helper.                  *)
(*                                                                         *)
(* The repository holds two programs that share one design:                *)
(*   src/mch_helper/bot.py  (python-telegram-bot; TemplateManager,         *)
(*                           VacancyProcessor, handle_vacancy)             *)
(*   src/main.py            (aiogram; TemplateStore, VacancyBot)           *)
(* The variable impl says which of the two programs is running.            *)
(*                                                                         *)
(* Texts are sequences of tokens.  A token is a piece of text that the     *)
(* regular expressions of the code treat as a unit (a tag, a word, a       *)
(* white-space character, a URL scheme, ...).                              *)
(***************************************************************************)
EXTENDS Integers, Sequences, FiniteSets, TLC

VARIABLES
    impl,        \* "bot" (src/mch_helper/bot.py) or "main" (src/main.py)
    file,        \* the persisted templates.json
    proc,        \* "stopped" | "running" | "crashed" (construction raised)
    templates,   \* TemplateManager.templates / TemplateStore._data
    bootKind,    \* history: kind of the file met by the last construction
    fresh,       \* history: no store call has mutated since the construction
    everMutated, \* history: some mutating store call has completed
    lastSet,     \* history: per user, the last set_template not yet overwritten,
                 \*          and whether the store was constructed anew since
    lastOp,      \* history: the last store call, with the state before it
    own,         \* history: per user, the entry the user's own writes amount to
    creds,       \* the configuration: which of YANDEX_API_KEY, YANDEX_FOLDER_ID are set
    pc,          \* where the message handler stands: "idle" | "extract" | "generate" | "deliver"
    req,         \* the user message being handled (or handled last)
    parsed,      \* the result of extract_url_content for req
    gen,         \* the result of the generation call for req
    outbox,      \* the messages sent to the user for req, in order
    result,      \* how the handler of req ended, once it has
    phase,       \* per user, where the handler of the user's update stands
    finished,    \* the users whose handlers have ended, in that order
    fnIn,        \* the input of the function under study
    fnArg,       \* the outcome of its outbound call, where it makes one
    fnOut,       \* its results so far
    conv,        \* per user, the states of the conversations about the template
    user_data,   \* per user, the template text kept until the description comes
    session,     \* history: per user, what the authoring session has seen
    handled      \* history: the last update handled, with the state before it

storeVars == <<impl, file, proc, templates, bootKind, fresh,
               everMutated, lastSet, lastOp, own>>

pipeVars == <<creds, pc, req, parsed, gen, outbox, result>>

schedVars == <<phase, finished>>

fnVars == <<fnIn, fnArg, fnOut>>

authVars == <<conv, user_data, session, handled>>

vars == <<impl, file, proc, templates, bootKind, fresh, everMutated, lastSet,
          lastOp, own, creds, pc, req, parsed, gen, outbox, result, phase, finished,
          fnIn, fnArg, fnOut, conv, user_data, session, handled>>

-----------------------------------------------------------------------------
(* Bounds of the model.                                                    *)

MaxUsers == 2
MaxTextLen == 5
MaxSanLen == 3
MaxLabelLen == 3
MaxHandled == 3
MaxUpdates == 4

UserIds == 1..MaxUsers

-----------------------------------------------------------------------------
(* Python values.                                                          *)

\* Python's None (Optional results).
None == [none |-> TRUE]

\* None where a text is expected (Optional[str]).  The empty text stands for
\* it: the code only tests such values for truth, and no URL is empty.
NoneStr == << >>

\* An empty dict.
EmptyDict == [k \in {} |-> None]

\* str(user_id): the key under which both stores keep a user's entry.
str(user_id) == ToString(user_id)

\* dict[key] = value
DictSet(d, key, value) ==
    [k \in (DOMAIN d) \cup {key} |-> IF k = key THEN value ELSE d[k]]

\* dict.get(key)
DictGet(d, key) == IF key \in DOMAIN d THEN d[key] ELSE None

\* The texts users submit as template (example) and as description.
TemplateTexts == {<<"T1">>, <<"T2">>}
Descriptions == {<< >>, <<"D1">>}

-----------------------------------------------------------------------------
(* Texts as token sequences.                                               *)

\* White space, as \s of the regular expressions and str.strip see it.
Whitespace == {" ", "\n"}
IsSpace(tok) == tok \in Whitespace

\* The URL schemes matched by https?://
Schemes == {"http://", "https://"}

\* A run of three or more backticks.
Fence == "{fence}"

\* The token made of a backslash followed by a capital S.  The patterns of
\* format_contact_links are raw strings that spell \\S, \\s and \\w, so they
\* match a literal backslash followed by the letter, not a character class.
BS == "{backslash}S"

\* The call-to-action phrase of format_contact_links (three words), the
\* opening of an anchor up to the quote of its href, the end of the opening
\* tag, and the generic anchor label.
CtaPhrase == <<"{Stat}", " ", "{chastyu}", " ", "{komandy}">>
HrefQuote == "href={quote}"
AOpen == <<"<a", " ", HrefQuote>>
AQuote == "{quote}>"
AClose == "</a>"
Label == "{ssylka}"

\* needle occurs in hay as a contiguous piece.
Contains(hay, needle) ==
    \E i \in 0..(Len(hay) - Len(needle)) :
        SubSeq(hay, i + 1, i + Len(needle)) = needle

\* The number of leading tokens of text that lie in S.
LeadRun(text, S) ==
    CHOOSE n \in 0..Len(text) :
        /\ \A i \in 1..n : text[i] \in S
        /\ (n = Len(text) \/ text[n + 1] \notin S)

\* The number of trailing tokens of text that lie in S.
TrailRun(text, S) ==
    CHOOSE n \in 0..Len(text) :
        /\ \A i \in (Len(text) - n + 1)..Len(text) : text[i] \in S
        /\ (n = Len(text) \/ text[Len(text) - n] \notin S)

DropFirst(text, n) == SubSeq(text, n + 1, Len(text))
DropLast(text, n) == SubSeq(text, 1, Len(text) - n)

\* str.strip()
strip(text) ==
    LET t == DropFirst(text, LeadRun(text, Whitespace))
    IN  DropLast(t, TrailRun(t, Whitespace))

\* The end of the run of non-space tokens that starts at i.
RunEnd(text, i) ==
    CHOOSE j \in i..Len(text) :
        /\ \A k \in i..j : ~IsSpace(text[k])
        /\ (j = Len(text) \/ IsSpace(text[j + 1]))

\* The concatenation of a sequence of texts.
RECURSIVE Flatten(_)
Flatten(parts) ==
    IF parts = << >> THEN << >> ELSE Head(parts) \o Flatten(Tail(parts))

\* re.sub of a pattern that matches single tokens: every token is replaced
\* by its image under f (a text, possibly empty).
SubTokens(text, f(_)) == Flatten([i \in 1..Len(text) |-> f(text[i])])

-----------------------------------------------------------------------------
(* src/mch_helper/bot.py: the output sanitizer                             *)

\* Rule 2, (CTA:?\\s*)(https?://\\S+), at position i: the phrase, an optional
\* colon, a backslash with letters s after it, then a scheme followed by a
\* backslash and capital S.
CtaColon(text, i) ==
    IF i + Len(CtaPhrase) <= Len(text) /\ text[i + Len(CtaPhrase)] = ":" THEN 1 ELSE 0

CtaMatch(text, i) ==
    LET j == i + Len(CtaPhrase) + CtaColon(text, i)
    IN  /\ j + 2 <= Len(text)
        /\ SubSeq(text, i, i + Len(CtaPhrase) - 1) = CtaPhrase
        /\ text[j] = BS
        /\ text[j + 1] \in Schemes
        /\ text[j + 2] = BS

RECURSIVE SubCta(_, _)
SubCta(text, i) ==
    IF i > Len(text) THEN << >>
    ELSE IF CtaMatch(text, i)
         THEN LET j == i + Len(CtaPhrase) + CtaColon(text, i)
              IN  AOpen \o <<text[j + 1], text[j + 2], AQuote>> \o CtaPhrase
                      \o <<AClose>> \o SubCta(text, j + 3)
         ELSE <<text[i]>> \o SubCta(text, i + 1)

\* Rule 3, (?<!href=")(?<!">)(https?://\\S+), at position i: a scheme followed
\* by a backslash and capital S, not preceded by href=" or by ">.
BareMatch(text, i) ==
    /\ text[i] \in Schemes
    /\ i + 1 <= Len(text)
    /\ text[i + 1] = BS
    /\ ~(i > 1 /\ text[i - 1] \in {HrefQuote, AQuote})

RECURSIVE SubBare(_, _)
SubBare(text, i) ==
    IF i > Len(text) THEN << >>
    ELSE IF BareMatch(text, i)
         THEN AOpen \o <<text[i], text[i + 1], AQuote, Label, AClose>>
                  \o SubBare(text, i + 2)
         ELSE <<text[i]>> \o SubBare(text, i + 1)

\* VacancyProcessor.format_contact_links.  Rule 1 replaces each match by
\* itself (group 1 followed by group 2) and so changes nothing.
format_contact_links(text) == SubBare(SubCta(text, 1), 1)

\* ^`{3,}\s* : leading fences, then white space.
StripLeadingFence(text) ==
    LET n == LeadRun(text, {Fence})
        rest == DropFirst(text, n)
    IN  IF n = 0 THEN text ELSE DropFirst(rest, LeadRun(rest, Whitespace))

\* \s*`{3,}$ : white space, then fences, at the end of the text or before
\* its final newline.
StripTrailingFence(text) ==
    LET nl == IF text # << >> /\ text[Len(text)] = "\n" THEN 1 ELSE 0
        atEnd == TrailRun(text, {Fence})
        body == IF atEnd > 0 THEN text ELSE DropLast(text, nl)
        tail == IF atEnd > 0 THEN << >> ELSE SubSeq(text, Len(text) - nl + 1, Len(text))
        n == TrailRun(body, {Fence})
        cut == DropLast(body, n)
    IN  IF n = 0 THEN text
        ELSE DropLast(cut, TrailRun(cut, Whitespace)) \o tail

\* The tags the cleaning rules name, and what each becomes.
LineBreakTags == {"<br>", "<p>", "</p>", "<div>", "</div>", "<pre>"}
SpanTags == {"<span>", "</span>"}

\* Tags that <(?!/?[biusa]|/?code|/?pre|/?blockquote|a\s)[^>]+> deletes:
\* those whose name starts with none of b, i, u, s, a and is not code, pre
\* or blockquote.
DroppedTags == {"<h1>", "</h1>", "<html>", "</html>", "<li>", "</li>", "<table>"}

\* Tags the same pattern leaves in place.
KeptTags == {"<b>", "</b>", "<i>", "</i>", "<u>", "</u>", "<s>", "</s>",
             "<blockquote>", "</blockquote>", "<code>", "</code>", "</pre>",
             "<body>", "</body>", "<img>", "<ul>", "</ul>", "<section>",
             "<script>", "<a>", "<a", AClose}

\* Lines 120-129: one token in, one text out.
TagRewrite(tok) ==
    IF tok \in LineBreakTags THEN <<"\n">>
    ELSE IF tok \in SpanTags THEN << >>
    ELSE IF tok = "<strong>" THEN <<"<b>">>
    ELSE IF tok = "</strong>" THEN <<"</b>">>
    ELSE IF tok = "<em>" THEN <<"<i>">>
    ELSE IF tok = "</em>" THEN <<"</i>">>
    ELSE <<tok>>

\* Line 132.
DropTag(tok) == IF tok \in DroppedTags THEN << >> ELSE <<tok>>

\* Line 135, https?://\S*vseti\.app\S* : a scheme whose run of non-space
\* tokens holds the aggregator domain is deleted with the whole run.
Aggregator == "vseti.app"

RECURSIVE SubAggregatorUrl(_, _)
SubAggregatorUrl(text, i) ==
    IF i > Len(text) THEN << >>
    ELSE IF /\ text[i] \in Schemes
            /\ \E k \in (i + 1)..RunEnd(text, i) : text[k] = Aggregator
         THEN SubAggregatorUrl(text, RunEnd(text, i) + 1)
         ELSE <<text[i]>> \o SubAggregatorUrl(text, i + 1)

\* Line 136.
DropAggregator(tok) == IF tok = Aggregator THEN << >> ELSE <<tok>>

\* Line 139, \n{3,} -> \n\n
RECURSIVE CollapseNewlines(_)
CollapseNewlines(text) ==
    LET n == LeadRun(text, {"\n"})
    IN  IF text = << >> THEN << >>
        ELSE IF n >= 3 THEN <<"\n", "\n">> \o CollapseNewlines(DropFirst(text, n))
        ELSE IF n > 0 THEN SubSeq(text, 1, n) \o CollapseNewlines(DropFirst(text, n))
        ELSE <<Head(text)>> \o CollapseNewlines(Tail(text))

\* Line 142, ^\s*(html|body)\s*[:>\-]?\s* : one leading service word.
ServiceWords == {"html", "body"}
ServicePunct == {":", ">", "-"}

StripServiceWord(text) ==
    LET a == DropFirst(text, LeadRun(text, Whitespace))
        b == DropFirst(a, 1)
        c == DropFirst(b, LeadRun(b, Whitespace))
        d == IF c # << >> /\ c[1] \in ServicePunct THEN DropFirst(c, 1) ELSE c
    IN  IF a # << >> /\ a[1] \in ServiceWords
        THEN DropFirst(d, LeadRun(d, Whitespace))
        ELSE text

\* VacancyProcessor.clean_html_for_telegram
clean_html_for_telegram(text) ==
    LET t1 == StripTrailingFence(StripLeadingFence(text))
        t2 == SubTokens(t1, TagRewrite)
        t3 == SubTokens(t2, DropTag)
        t4 == SubTokens(SubAggregatorUrl(t3, 1), DropAggregator)
        t5 == CollapseNewlines(t4)
        t6 == StripServiceWord(t5)
    IN  strip(t6)

\* generate_message, lines 315-317: the sanitizer applied to the model output.
sanitize(text) == clean_html_for_telegram(format_contact_links(text))

-----------------------------------------------------------------------------
(* Content extraction: VacancyProcessor.extract_url_content (bot.py).      *)

\* re.findall(r'https?://[^\s]+', text) from position i on: a scheme
\* followed by at least one non-space character matches up to the end of
\* the run of non-space characters; the scan resumes after the match.
RECURSIVE re_findall_url(_, _)
re_findall_url(text, i) ==
    IF i > Len(text) THEN << >>
    ELSE IF text[i] \in Schemes /\ i < Len(text) /\ ~IsSpace(text[i + 1])
         THEN <<SubSeq(text, i, RunEnd(text, i))>>
                  \o re_findall_url(text, RunEnd(text, i) + 1)
         ELSE re_findall_url(text, i + 1)

\* The elements decomposed before the text of the page is taken.
NonContentTags == {"script", "style", "nav", "footer", "header"}

\* str.split('\n')
RECURSIVE split_lines(_)
split_lines(text) ==
    IF \A i \in 1..Len(text) : text[i] # "\n" THEN <<text>>
    ELSE LET i == CHOOSE j \in 1..Len(text) :
                      text[j] = "\n" /\ \A k \in 1..(j - 1) : text[k] # "\n"
         IN  <<SubSeq(text, 1, i - 1)>> \o split_lines(DropFirst(text, i))

\* '\n'.join(lines)
RECURSIVE join_lines(_)
join_lines(lines) ==
    IF lines = << >> THEN << >>
    ELSE IF Len(lines) = 1 THEN lines[1]
    ELSE lines[1] \o <<"\n">> \o join_lines(Tail(lines))

\* The sequence s without its empty texts, order kept.
RECURSIVE NonEmpty(_)
NonEmpty(s) ==
    IF s = << >> THEN << >>
    ELSE IF Head(s) = << >> THEN NonEmpty(Tail(s))
    ELSE <<Head(s)>> \o NonEmpty(Tail(s))

\* A fetched page is a sequence of elements [tag, text].  soup.get_text
\* joins the stripped non-empty strings of the elements that are left after
\* the decomposition with '\n'; the lines of the result are stripped and
\* the empty ones dropped.
page_text(page) ==
    LET kept == NonEmpty([i \in 1..Len(page) |->
                    IF page[i].tag \in NonContentTags THEN << >>
                    ELSE strip(page[i].text)])
        text_content == join_lines(kept)
        lines == NonEmpty([i \in 1..Len(split_lines(text_content)) |->
                     strip(split_lines(text_content)[i])])
    IN  join_lines(lines)

\* The outcomes of requests.get(url, timeout=10) followed by
\* raise_for_status(): the request raises (timeout, connection error), the
\* status is an error, or a page comes back.
FetchFailures == {"transport_error", "http_error"}
FetchOutcome(status, page) == [status |-> status, page |-> page]

\* extract_url_content as a mutant: the last URL of the text is fetched.
extract_url_content_lasturl(text, fetch) ==
    LET urls == re_findall_url(text, 1)
    IN  IF urls = << >> THEN [text |-> text, url |-> NoneStr, gets |-> 0]
        ELSE IF fetch.status \in FetchFailures
             THEN [text |-> text, url |-> urls[Len(urls)], gets |-> 1]
             ELSE [text |-> page_text(fetch.page), url |-> urls[Len(urls)], gets |-> 1]

\* extract_url_content as a mutant: a failed GET is tried once more.
extract_url_content_retry(text, fetch) ==
    LET urls == re_findall_url(text, 1)
    IN  IF urls = << >> THEN [text |-> text, url |-> NoneStr, gets |-> 0]
        ELSE IF fetch.status \in FetchFailures
             THEN [text |-> text, url |-> urls[1], gets |-> 2]
             ELSE [text |-> page_text(fetch.page), url |-> urls[1], gets |-> 1]

\* extract_url_content(text), given the outcome of the one GET it may make.
\* Everything that can fail lies inside the try whose handler returns
\* (text, url).
extract_url_content(text, fetch) ==
    LET urls == re_findall_url(text, 1)
    IN  IF urls = << >> THEN [text |-> text, url |-> NoneStr, gets |-> 0]
        ELSE IF fetch.status \in FetchFailures
             THEN [text |-> text, url |-> urls[1], gets |-> 1]
             ELSE [text |-> page_text(fetch.page), url |-> urls[1], gets |-> 1]

-----------------------------------------------------------------------------
(* Generation: VacancyProcessor.generate_message (bot.py) and              *)
(* VacancyBot._call_yandex_llm (main.py).                                  *)

\* The outcomes of the POST to the completion endpoint: the request raises
\* (timeout, connection error) or a response comes back, with a status and
\* a body that is not JSON, JSON of another shape, or JSON holding a text at
\* result.alternatives[0].message.text.
LlmResponse(kind, status, body, text) ==
    [kind |-> kind, status |-> status, body |-> body, text |-> text]

TransportError == LlmResponse("transport_error", 0, "none", << >>)

\* The configuration: which of YANDEX_API_KEY and YANDEX_FOLDER_ID are set.
Credentials == [api_key : BOOLEAN, folder_id : BOOLEAN]

\* The result of a generation call: whether it raised, the string returned
\* (or the message of the exception), the number of POSTs made, and the
\* prompt if one was built.
GenResult(raised, value, posts, built, prompt) ==
    [raised |-> raised, value |-> value, posts |-> posts,
     built |-> built, prompt |-> prompt]

\* The prompt of generate_message (bot.py): fixed text around the four
\* interpolated values; the instructions section only if contact_info is
\* truthy.
bot_prompt(vacancy_text, example, description, contact_info) ==
    <<"{prompt head}", "\n", "\n", "{example header}", "\n">> \o example
        \o <<"\n", "\n", "{description header}", "\n">> \o description
        \o <<"\n", "\n", "{new data header}", "\n">> \o vacancy_text
        \o <<"\n", "\n">>
        \o (IF contact_info # NoneStr
            THEN <<"{instructions header}", "\n">> \o contact_info
            ELSE << >>)
        \o <<"\n", "\n", "{prompt rules}">>

\* _generate_simple_message (bot.py); contact_info is not used.
generate_simple_message(vacancy_text, example, contact_info) ==
    <<"{AI unavailable}", "\n", "\n", "{your example}", "\n">> \o example
        \o <<"\n", "\n", "{new vacancy}", "\n">> \o vacancy_text
        \o <<"\n", "\n", "{configure the API}">>

\* generate_message (bot.py), given the configuration and the outcome of
\* the POST it may make.
generate_message(vacancy_text, example, description, contact_info, cfg, resp) ==
    LET simple == generate_simple_message(vacancy_text, example, contact_info)
        prompt == bot_prompt(vacancy_text, example, description, contact_info)
    IN  IF ~cfg.api_key \/ ~cfg.folder_id
        THEN GenResult(FALSE, simple, 0, FALSE, << >>)
        ELSE IF resp.kind = "transport_error"
             THEN GenResult(FALSE, simple, 1, TRUE, prompt)
        ELSE IF resp.status = 200
             THEN IF resp.body = "text"
                  THEN GenResult(FALSE,
                           clean_html_for_telegram(
                               format_contact_links(strip(resp.text))),
                           1, TRUE, prompt)
                  ELSE GenResult(FALSE, simple, 1, TRUE, prompt)
        ELSE GenResult(FALSE, simple, 1, TRUE, prompt)

\* The user prompt of _call_yandex_llm (main.py).
main_prompt(template, description, vacancy_text) ==
    <<"{Template:}", "\n">> \o template
        \o <<"\n", "\n", "{Template description/constraints:}", "\n">> \o description
        \o <<"\n", "\n", "{Vacancy details:}", "\n">> \o vacancy_text
        \o <<"\n", "\n", "{Return only the final message}">>

\* _call_yandex_llm (main.py): no key raises before anything is built; a
\* transport error, an error status (raise_for_status), a body that is not
\* JSON and a body of another shape raise as well.
call_yandex_llm(template, description, vacancy_text, cfg, resp) ==
    LET prompt == main_prompt(template, description, vacancy_text)
    IN  IF ~cfg.api_key
        THEN GenResult(TRUE, <<"{YANDEX_API_KEY is not set}">>, 0, FALSE, << >>)
        ELSE IF resp.kind = "transport_error"
             THEN GenResult(TRUE, <<"{transport error}">>, 1, TRUE, prompt)
        ELSE IF resp.status # 200
             THEN GenResult(TRUE, <<"{HTTP status error}">>, 1, TRUE, prompt)
        ELSE IF resp.body = "not_json"
             THEN GenResult(TRUE, <<"{JSON decode error}">>, 1, TRUE, prompt)
        ELSE IF resp.body = "other_shape"
             THEN GenResult(TRUE, <<"{Unexpected response from Yandex LLM}">>,
                            1, TRUE, prompt)
        ELSE GenResult(FALSE, strip(resp.text), 1, TRUE, prompt)

-----------------------------------------------------------------------------
(* The persisted file: json.dump / json.load.                              *)
(* A JSON object is written as the sequence of its members; reading it     *)
(* builds the mapping again (a repeated key keeps its last member).        *)

AllKeys == [u \in UserIds |-> str(u)]

InDomain(d, k) == k \in DOMAIN d

\* json.dumps of a dict of JSON objects: one member per key.
json_dump(d) ==
    LET ks == SelectSeq(AllKeys, LAMBDA k : InDomain(d, k))
    IN  [i \in 1..Len(ks) |-> [key |-> ks[i], value |-> d[ks[i]]]]

\* json.loads of a JSON object text.
json_load(members) ==
    LET keys == {members[i].key : i \in 1..Len(members)}
        last(k) == CHOOSE i \in 1..Len(members) :
                      /\ members[i].key = k
                      /\ \A j \in 1..Len(members) : members[j].key = k => j <= i
    IN  [k \in keys |-> members[last(k)].value]

MissingFile == [kind |-> "missing", members |-> << >>]
CorruptFile == [kind |-> "corrupt", members |-> << >>]
JsonFile(members) == [kind |-> "json", members |-> members]

-----------------------------------------------------------------------------
(* src/mch_helper/bot.py: TemplateManager                                  *)

\* TemplateManager.load_templates: no try/except around json.load.
TemplateManager_load_templates(f) ==
    IF f.kind = "missing"
    THEN [raised |-> FALSE, value |-> EmptyDict]
    ELSE IF f.kind = "json"
         THEN [raised |-> FALSE, value |-> json_load(f.members)]
         ELSE [raised |-> TRUE, value |-> EmptyDict]

\* TemplateManager.save_templates: rewrite the whole file from memory.
TemplateManager_save_templates(tpls) == JsonFile(json_dump(tpls))

\* A set_template that forgets to persist.
TemplateManager_set_template_nosave(tpls, f, user_id, example, description) ==
    [templates |-> DictSet(tpls, str(user_id),
                           [example |-> example, description |-> description]),
     file |-> f]

\* A set_template that keeps the old description of an existing entry.
TemplateManager_set_template_keepdesc(tpls, f, user_id, example, description) ==
    LET old == DictGet(tpls, str(user_id))
        new == DictSet(tpls, str(user_id),
                       [example |-> example,
                        description |-> IF old = None THEN description
                                        ELSE old.description])
    IN  [templates |-> new, file |-> TemplateManager_save_templates(new)]

\* A set_template that persists the caller's entry alone.
TemplateManager_set_template_ownonly(tpls, f, user_id, example, description) ==
    LET new == DictSet(tpls, str(user_id),
                       [example |-> example, description |-> description])
    IN  [templates |-> new,
         file |-> JsonFile(json_dump(DictSet(EmptyDict, str(user_id),
                                             new[str(user_id)])))]

\* A set_template that starts the dictionary over with the one entry.
TemplateManager_set_template_evict(tpls, f, user_id, example, description) ==
    LET new == DictSet(EmptyDict, str(user_id),
                       [example |-> example, description |-> description])
    IN  [templates |-> new, file |-> TemplateManager_save_templates(new)]

\* TemplateManager.set_template: upsert, then save.
TemplateManager_set_template(tpls, f, user_id, example, description) ==
    LET new == DictSet(tpls, str(user_id),
                       [example |-> example, description |-> description])
    IN  [templates |-> new, file |-> TemplateManager_save_templates(new)]

\* An update_description that creates the entry when it is missing.
TemplateManager_update_description_upsert(tpls, f, user_id, description) ==
    LET new == DictSet(tpls, str(user_id),
                       [example |-> << >>, description |-> description])
    IN  IF str(user_id) \in DOMAIN tpls
        THEN LET upd == DictSet(tpls, str(user_id),
                           [example |-> tpls[str(user_id)].example,
                            description |-> description])
             IN [templates |-> upd, file |-> TemplateManager_save_templates(upd)]
        ELSE [templates |-> new, file |-> TemplateManager_save_templates(new)]

\* An update_description that replaces the whole entry.
TemplateManager_update_description_wholesale(tpls, f, user_id, description) ==
    IF str(user_id) \in DOMAIN tpls
    THEN LET new == DictSet(tpls, str(user_id),
                            [example |-> << >>, description |-> description])
         IN  [templates |-> new, file |-> TemplateManager_save_templates(new)]
    ELSE [templates |-> tpls, file |-> f]

\* TemplateManager.update_description: only for an existing entry.
TemplateManager_update_description(tpls, f, user_id, description) ==
    IF str(user_id) \in DOMAIN tpls
    THEN LET new == DictSet(tpls, str(user_id),
                            [example |-> tpls[str(user_id)].example,
                             description |-> description])
         IN  [templates |-> new, file |-> TemplateManager_save_templates(new)]
    ELSE [templates |-> tpls, file |-> f]

\* TemplateManager.get_template
TemplateManager_get_template(tpls, user_id) == DictGet(tpls, str(user_id))

-----------------------------------------------------------------------------
(* src/main.py: TemplateStore                                              *)

\* payload.get(name, "")
PayloadGet(payload, name) ==
    IF name \in DOMAIN payload THEN payload[name] ELSE << >>

\* TemplateStore.__init__ + _load: any failure leaves an empty store.
TemplateStore_load(f) ==
    IF f.kind = "missing"
    THEN [raised |-> FALSE, value |-> EmptyDict]
    ELSE IF f.kind = "json"
         THEN LET raw == json_load(f.members)
              IN  [raised |-> FALSE,
                   value |-> [k \in DOMAIN raw |->
                                [template |-> PayloadGet(raw[k], "template"),
                                 description |-> PayloadGet(raw[k], "description")]]]
         ELSE [raised |-> FALSE, value |-> EmptyDict]

\* dataclasses.asdict(UserTemplate)
asdict(tpl) == [template |-> tpl.template, description |-> tpl.description]

\* TemplateStore._save
TemplateStore_save(data) ==
    JsonFile(json_dump([k \in DOMAIN data |-> asdict(data[k])]))

\* TemplateStore.set_template
TemplateStore_set_template(data, f, user_id, template, description) ==
    LET new == DictSet(data, str(user_id),
                       [template |-> template, description |-> description])
    IN  [templates |-> new, file |-> TemplateStore_save(new)]

\* TemplateStore.get_template
TemplateStore_get_template(data, user_id) == DictGet(data, str(user_id))

-----------------------------------------------------------------------------
(* The store of the running program, whichever it is.                      *)

load(f) ==
    IF impl = "bot" THEN TemplateManager_load_templates(f) ELSE TemplateStore_load(f)

set_template(user_id, t, d) ==
    IF impl = "bot"
    THEN TemplateManager_set_template(templates, file, user_id, t, d)
    ELSE TemplateStore_set_template(templates, file, user_id, t, d)

get_template(user_id) ==
    IF impl = "bot"
    THEN TemplateManager_get_template(templates, user_id)
    ELSE TemplateStore_get_template(templates, user_id)

\* The template text and the description of a stored entry.
TextOf(entry) == IF impl = "bot" THEN entry.example ELSE entry.template
DescOf(entry) == entry.description

\* The entries a previous run of the same program can have left in the file.
Entry(t, d) ==
    IF impl = "bot" THEN [example |-> t, description |-> d]
    ELSE [template |-> t, description |-> d]

Mappings ==
    UNION {[{str(u) : u \in S} -> {Entry(t, d) : t \in TemplateTexts, d \in Descriptions}]
           : S \in SUBSET UserIds}

InitialFiles ==
    {MissingFile, CorruptFile} \cup {JsonFile(json_dump(m)) : m \in Mappings}

NoOp == [kind |-> "none", user |-> 0, before |-> EmptyDict, fileBefore |-> MissingFile]

\* The values of the handler's variables while no message is being handled
\* and of the function variables while no function is under study.
NoRequest ==
    [user |-> 0, text |-> << >>, instr |-> << >>, has_template |-> FALSE,
     example |-> << >>, description |-> << >>]

NotParsed ==
    [done |-> FALSE, text |-> << >>, url |-> NoneStr, gets |-> 0,
     fetch |-> "none"]

NotGenerated ==
    [done |-> FALSE, resp |-> TransportError,
     r |-> GenResult(FALSE, << >>, 0, FALSE, << >>)]

NoFetch == FetchOutcome("none", << >>)

\* How a handler ended: whether it has, whether an exception left it, which
\* call to Telegram failed, and whether the edit that reports the failure
\* failed too.
HandlerResult(ended, escaped, failed, edit_failed) ==
    [ended |-> ended, escaped |-> escaped, failed |-> failed,
     edit_failed |-> edit_failed]

NoResult == HandlerResult(FALSE, FALSE, "none", FALSE)

PipelineIdle ==
    /\ pc = "idle"
    /\ req = NoRequest
    /\ parsed = NotParsed
    /\ gen = NotGenerated
    /\ outbox = << >>
    /\ result = NoResult

SchedulerIdle ==
    /\ phase = [u \in UserIds |-> "none"]
    /\ finished = << >>

FunctionIdle ==
    /\ fnIn = << >>
    /\ fnArg = NoFetch
    /\ fnOut = << >>

\* A user outside every conversation: neither ConversationHandler of bot.py
\* holds a state for the user, the FSM of main.py holds none.
NoConversation == [template_conv |-> "END", description_conv |-> "END", state |-> "none"]

NoSession == [received |-> NoneStr, left |-> FALSE, cancelled |-> FALSE]

NoUpdate ==
    [user |-> 0, update |-> "none", text |-> << >>, handler |-> "none",
     conv |-> NoConversation, session |-> NoSession,
     before |-> EmptyDict, fileBefore |-> MissingFile, n |-> 0]

AuthoringIdle ==
    /\ conv = [u \in UserIds |-> NoConversation]
    /\ user_data = [u \in UserIds |-> NoneStr]
    /\ session = [u \in UserIds |-> NoSession]
    /\ handled = NoUpdate

-----------------------------------------------------------------------------
(* Actions of the store.                                                   *)

InitStore ==
    /\ impl \in {"bot", "main"}
    /\ file \in InitialFiles
    /\ proc = "stopped"
    /\ templates = EmptyDict
    /\ bootKind = "none"
    /\ fresh = FALSE
    /\ everMutated = FALSE
    /\ lastSet = [u \in UserIds |-> None]
    /\ lastOp = NoOp
    /\ own = [u \in UserIds |-> None]
    /\ creds = [api_key |-> TRUE, folder_id |-> TRUE]
    /\ PipelineIdle
    /\ SchedulerIdle
    /\ AuthoringIdle
    /\ FunctionIdle

\* Process start: template_manager = TemplateManager() (bot.py, module level)
\* or VacancyBot.__init__ -> TemplateStore(path) (main.py).
Construct ==
    /\ proc = "stopped"
    /\ LET r == load(file)
       IN  /\ proc' = IF r.raised THEN "crashed" ELSE "running"
           /\ templates' = r.value
    /\ bootKind' = file.kind
    /\ fresh' = TRUE
    /\ lastOp' = NoOp
    /\ lastSet' = [u \in UserIds |->
                     IF lastSet[u] = None THEN None
                     ELSE [lastSet[u] EXCEPT !.reloaded = TRUE]]
    /\ UNCHANGED <<impl, file, everMutated, own>>
    /\ UNCHANGED <<pipeVars, fnVars, schedVars, authVars>>

\* Process exit: the memory is lost, the file stays.
Stop ==
    /\ proc = "running"
    /\ proc' = "stopped"
    /\ templates' = EmptyDict
    /\ fresh' = FALSE
    /\ lastOp' = NoOp
    /\ UNCHANGED <<impl, file, bootKind, everMutated, lastSet, own>>
    /\ UNCHANGED <<pipeVars, fnVars, schedVars, authVars>>

\* set_template(u, t, d) as a handler or a caller runs it.
CallSetTemplate(u, t, d) ==
    /\ proc = "running"
    /\ LET r == set_template(u, t, d)
       IN  /\ templates' = r.templates
           /\ file' = r.file
    /\ fresh' = FALSE
    /\ everMutated' = TRUE
    /\ lastSet' = [lastSet EXCEPT ![u] = [t |-> t, d |-> d, reloaded |-> FALSE]]
    /\ own' = [own EXCEPT ![u] = [t |-> t, d |-> d]]
    /\ lastOp' = [kind |-> "set_template", user |-> u, before |-> templates,
                  fileBefore |-> file]
    /\ UNCHANGED <<impl, proc, bootKind>>

\* A call of set_template(u, t, d).
SetTemplate(u, t, d) ==
    /\ CallSetTemplate(u, t, d)
    /\ UNCHANGED <<pipeVars, fnVars, schedVars, authVars>>

\* update_description(u, d) as a handler or a caller runs it.
CallUpdateDescription(u, d) ==
    /\ proc = "running"
    /\ impl = "bot"
    /\ LET r == TemplateManager_update_description(templates, file, u, d)
       IN  /\ templates' = r.templates
           /\ file' = r.file
    /\ fresh' = FALSE
    /\ everMutated' = (everMutated \/ str(u) \in DOMAIN templates)
    /\ lastSet' = [lastSet EXCEPT ![u] = None]
    /\ own' = [own EXCEPT ![u] =
                  IF own[u] # None THEN [t |-> own[u].t, d |-> d]
                  ELSE IF str(u) \in DOMAIN templates
                       THEN [t |-> templates[str(u)].example, d |-> d]
                       ELSE None]
    /\ lastOp' = [kind |-> "update_description", user |-> u, before |-> templates,
                  fileBefore |-> file]
    /\ UNCHANGED <<impl, proc, bootKind>>

\* A call of update_description(u, d) (bot.py only: main.py has none).
UpdateDescription(u, d) ==
    /\ CallUpdateDescription(u, d)
    /\ UNCHANGED <<pipeVars, fnVars, schedVars, authVars>>

StoreNext ==
    \/ Construct
    \/ Stop
    \/ \E u \in UserIds, t \in TemplateTexts, d \in Descriptions : SetTemplate(u, t, d)
    \/ \E u \in UserIds, d \in Descriptions : UpdateDescription(u, d)

Init == InitStore

Next == StoreNext

Spec == Init /\ [][Next]_vars

-----------------------------------------------------------------------------
(* The message pipeline: handle_vacancy (bot.py) and                       *)
(* VacancyBot.generate_response (main.py).                                 *)

\* The messages users send: a vacancy as plain text (which may hold markup)
\* or as a link, with or without instructions appended on a line of their
\* own.  The handler sees
\* only the text; instr records which part of it the user meant as
\* instructions.
Bodies == {<<"Vacancy", "<br>", "remote">>, <<"https://", "jobs.example">>}
Instructions == {<< >>, <<"Title:", " ", "Lead">>}

Message(body, instr) ==
    [text |-> IF instr = << >> THEN body ELSE body \o <<"\n">> \o instr,
     instr |-> instr]

UserMessages == {Message(b, i) : b \in Bodies, i \in Instructions}

\* The pages a vacancy link serves.
Pages ==
    {<< >>,
     <<[tag |-> "script", text |-> <<"js">>],
       [tag |-> "p", text |-> <<" ", "Page", " ", "\n", " ", "text", "\n">>],
       [tag |-> "footer", text |-> <<"foot">>]>>}

FetchOutcomes ==
    {FetchOutcome(f, << >>) : f \in FetchFailures}
        \cup {FetchOutcome("ok", p) : p \in Pages}

\* What the completion endpoint answers.
ModelOutputs ==
    {<<"\n", "<strong>", "Job", "</strong>", "<br>", "https://", "x.example", " ">>,
     <<"html", " ", "Hello">>}

LlmResponses ==
    {TransportError,
     LlmResponse("response", 500, "not_json", << >>),
     LlmResponse("response", 200, "not_json", << >>),
     LlmResponse("response", 200, "other_shape", << >>)}
        \cup {LlmResponse("response", 200, "text", t) : t \in ModelOutputs}

\* The configuration lets the program call the model: bot.py needs the key
\* and the folder id, main.py the key (its folder id has a default).
configured(cfg) ==
    IF impl = "bot" THEN cfg.api_key /\ cfg.folder_id ELSE cfg.api_key

\* The content handed to the generation call for the request at hand:
\* the extracted text (bot.py), the stripped message (main.py).
content == IF impl = "bot" THEN parsed.text ELSE strip(req.text)

\* The generation call the handler makes for the request at hand.  bot.py
\* passes None as contact_info.
generate(cfg, resp) ==
    IF impl = "bot"
    THEN generate_message(parsed.text, req.example, req.description, NoneStr,
                          cfg, resp)
    ELSE call_yandex_llm(req.example, req.description, strip(req.text),
                         cfg, resp)

\* The store a running process holds when a message arrives.
PipelineMappings ==
    UNION {[{str(u) : u \in S} -> {Entry(<<"T1">>, <<"D1">>)}] : S \in SUBSET UserIds}

InitPipeline ==
    /\ impl \in {"bot", "main"}
    /\ templates \in PipelineMappings
    /\ file = IF templates = EmptyDict THEN MissingFile
              ELSE JsonFile(json_dump(templates))
    /\ proc = "running"
    /\ bootKind = file.kind
    /\ fresh = TRUE
    /\ everMutated = FALSE
    /\ lastSet = [u \in UserIds |-> None]
    /\ lastOp = NoOp
    /\ own = [u \in UserIds |-> None]
    /\ creds \in {c \in Credentials : impl = "main" => c.folder_id}
    /\ PipelineIdle
    /\ SchedulerIdle
    /\ AuthoringIdle
    /\ FunctionIdle

\* Receive as a mutant: the return after the prompt is missing.
Receive_noreturn(u, m) ==
    /\ proc = "running"
    /\ pc = "idle"
    /\ LET tpl == get_template(u)
       IN  IF tpl = None
           THEN /\ req' = [user |-> u, text |-> m.text, instr |-> m.instr,
                           has_template |-> FALSE,
                           example |-> << >>, description |-> << >>]
                /\ outbox' = <<<<"{add a template first}">>>>
                /\ result' = HandlerResult(TRUE, FALSE, "none", FALSE)
                /\ pc' = IF impl = "bot" THEN "extract" ELSE "generate"
           ELSE /\ req' = [user |-> u, text |-> m.text, instr |-> m.instr,
                           has_template |-> TRUE,
                           example |-> TextOf(tpl), description |-> DescOf(tpl)]
                /\ outbox' = <<<<"{processing}">>>>
                /\ result' = NoResult
                /\ pc' = IF impl = "bot" THEN "extract" ELSE "generate"
    /\ parsed' = NotParsed
    /\ gen' = NotGenerated
    /\ UNCHANGED <<storeVars, creds, schedVars, fnVars, authVars>>

\* A message of user u reaches the handler: without a template the user is
\* told to add one and the handler returns; otherwise the progress note is
\* sent.
Receive(u, m) ==
    /\ proc = "running"
    /\ pc = "idle"
    /\ LET tpl == get_template(u)
       IN  IF tpl = None
           THEN /\ req' = [user |-> u, text |-> m.text, instr |-> m.instr,
                           has_template |-> FALSE,
                           example |-> << >>, description |-> << >>]
                /\ outbox' = <<<<"{add a template first}">>>>
                /\ result' = HandlerResult(TRUE, FALSE, "none", FALSE)
                /\ pc' = "idle"
           ELSE /\ req' = [user |-> u, text |-> m.text, instr |-> m.instr,
                           has_template |-> TRUE,
                           example |-> TextOf(tpl), description |-> DescOf(tpl)]
                /\ outbox' = <<<<"{processing}">>>>
                /\ result' = NoResult
                /\ pc' = IF impl = "bot" THEN "extract" ELSE "generate"
    /\ parsed' = NotParsed
    /\ gen' = NotGenerated
    /\ UNCHANGED <<storeVars, creds, schedVars, fnVars, authVars>>

\* bot.py: extract_url_content(vacancy_text); the progress note is edited.
Extract(fetch) ==
    /\ pc = "extract"
    /\ LET r == extract_url_content(req.text, fetch)
       IN  parsed' = [done |-> TRUE, text |-> r.text, url |-> r.url,
                      gets |-> r.gets,
                      fetch |-> IF r.gets = 0 THEN "none" ELSE fetch.status]
    /\ outbox' = <<<<"{generating}">>>>
    /\ pc' = "generate"
    /\ UNCHANGED <<storeVars, creds, req, gen, result, schedVars, fnVars, authVars>>

\* The generation call, with the outcome of its POST.
Generate(resp) ==
    /\ pc = "generate"
    /\ gen' = [done |-> TRUE, resp |-> resp, r |-> generate(creds, resp)]
    /\ pc' = "deliver"
    /\ UNCHANGED <<storeVars, creds, req, parsed, outbox, result, schedVars, fnVars, authVars>>

\* The calls to Telegram that end the handler, and which of them fails:
\* none, the deletion of the progress note, the sending of the generated
\* message, or the sending of the note that follows it.
TelegramFailures == {"none", "delete", "send", "note"}

\* handle_vacancy, lines 625-650.  The progress note is deleted, the
\* generated message is sent with parse_mode HTML, then the note that it is
\* ready.  A failure of any of them reaches the except clause, which edits
\* the progress note into the failure message; editing a note that has been
\* deleted raises, and that exception leaves the handler.
DeliverBot(failed, edit_ok) ==
    IF failed = "delete"
    THEN IF edit_ok
         THEN /\ outbox' = <<<<"{processing failed, try again}">>>>
              /\ result' = HandlerResult(TRUE, FALSE, failed, FALSE)
         ELSE /\ outbox' = outbox
              /\ result' = HandlerResult(TRUE, TRUE, failed, TRUE)
    ELSE IF failed = "send"
         THEN /\ outbox' = << >>
              /\ result' = HandlerResult(TRUE, TRUE, failed, FALSE)
    ELSE IF failed = "note"
         THEN /\ outbox' = <<gen.r.value>>
              /\ result' = HandlerResult(TRUE, TRUE, failed, FALSE)
    ELSE /\ outbox' = <<gen.r.value, <<"{message is ready}">>>>
         /\ result' = HandlerResult(TRUE, FALSE, failed, FALSE)

\* generate_response, lines 170-174: the text of the exception caught, or
\* the reply, is sent; the progress note stays.  Neither call is guarded.
DeliverMain(failed) ==
    IF failed = "send"
    THEN /\ outbox' = outbox
         /\ result' = HandlerResult(TRUE, TRUE, failed, FALSE)
    ELSE /\ outbox' = IF gen.r.raised
                      THEN Append(outbox,
                               <<"{Failed to generate text:}", " ">> \o gen.r.value)
                      ELSE Append(outbox, gen.r.value)
         /\ result' = HandlerResult(TRUE, FALSE, failed, FALSE)

\* The answer is sent and the handler ends.
Deliver(failed, edit_ok) ==
    /\ pc = "deliver"
    /\ IF impl = "bot"
       THEN /\ (failed # "delete" => edit_ok)
            /\ DeliverBot(failed, edit_ok)
       ELSE /\ failed \in {"none", "send"}
            /\ edit_ok
            /\ DeliverMain(failed)
    /\ pc' = "idle"
    /\ UNCHANGED <<storeVars, creds, req, parsed, gen, schedVars, fnVars, authVars>>

PipelineNext ==
    \/ \E u \in UserIds, m \in UserMessages : Receive(u, m)
    \/ \E fetch \in FetchOutcomes : Extract(fetch)
    \/ \E resp \in LlmResponses : Generate(resp)
    \/ \E failed \in TelegramFailures, edit_ok \in BOOLEAN : Deliver(failed, edit_ok)

SpecPipeline == InitPipeline /\ [][PipelineNext]_vars

-----------------------------------------------------------------------------
(* Scheduling of the handlers of several users.                            *)
(* bot.py: Application.builder().token(token).build() leaves the updates   *)
(* to be processed one after the other, and requests.get / requests.post   *)
(* are synchronous calls inside coroutines, so the one thread of the event *)
(* loop waits in them.  main.py: aiogram's polling handles every update in *)
(* a task of its own and the POST is awaited.                              *)

\* The positions of a handler at which an outbound HTTP call is outstanding,
\* and those at which the handler has started and not yet ended.
Calling == {"fetch", "generate"}
InHandler == {"fetch", "generate", "send"}

\* A coroutine of user u may take a step: always in main.py; in bot.py only
\* if no other handler has started and not ended.
MayRun(u) ==
    impl = "main" \/ \A v \in UserIds \ {u} : phase[v] \notin InHandler

InitSchedule ==
    /\ impl \in {"bot", "main"}
    /\ templates \in [{str(u) : u \in UserIds} -> {Entry(<<"T1">>, <<"D1">>)}]
    /\ file = JsonFile(json_dump(templates))
    /\ proc = "running"
    /\ bootKind = "json"
    /\ fresh = TRUE
    /\ everMutated = FALSE
    /\ lastSet = [u \in UserIds |-> None]
    /\ lastOp = NoOp
    /\ own = [u \in UserIds |-> None]
    /\ creds = [api_key |-> TRUE, folder_id |-> TRUE]
    /\ PipelineIdle
    /\ SchedulerIdle
    /\ AuthoringIdle
    /\ FunctionIdle

\* Telegram hands the process a vacancy message of user u.
UpdateArrives(u) ==
    /\ phase[u] = "none"
    /\ Len(finished) < MaxHandled
    /\ phase' = [phase EXCEPT ![u] = "queued"]
    /\ UNCHANGED <<storeVars, pipeVars, finished, fnVars, authVars>>

\* The handler of u's message starts and runs up to its first outbound
\* call: the page fetch if the message holds a link (bot.py), else the
\* generation call.
HandlerStarts(u, link) ==
    /\ phase[u] = "queued"
    /\ MayRun(u)
    /\ phase' = [phase EXCEPT ![u] = IF impl = "bot" /\ link THEN "fetch"
                                     ELSE "generate"]
    /\ UNCHANGED <<storeVars, pipeVars, finished, fnVars, authVars>>

\* requests.get returns (or times out); the handler goes on to the
\* generation call.
FetchReturns(u) ==
    /\ phase[u] = "fetch"
    /\ phase' = [phase EXCEPT ![u] = "generate"]
    /\ UNCHANGED <<storeVars, pipeVars, finished, fnVars, authVars>>

\* The POST returns (or times out); the handler goes on to send its answer.
GenerationReturns(u) ==
    /\ phase[u] = "generate"
    /\ phase' = [phase EXCEPT ![u] = "send"]
    /\ UNCHANGED <<storeVars, pipeVars, finished, fnVars, authVars>>

\* The answer is sent and the handler ends.
HandlerEnds(u) ==
    /\ phase[u] = "send"
    /\ MayRun(u)
    /\ phase' = [phase EXCEPT ![u] = "none"]
    /\ finished' = Append(finished, u)
    /\ UNCHANGED <<storeVars, pipeVars, fnVars, authVars>>

ScheduleNext ==
    \/ \E u \in UserIds : UpdateArrives(u)
    \/ \E u \in UserIds, link \in BOOLEAN : HandlerStarts(u, link)
    \/ \E u \in UserIds : FetchReturns(u)
    \/ \E u \in UserIds : GenerationReturns(u)
    \/ \E u \in UserIds : HandlerEnds(u)

SpecSchedule == InitSchedule /\ [][ScheduleNext]_vars

-----------------------------------------------------------------------------
(* The functions studied on their own.                                     *)

\* All texts of at most n tokens over an alphabet.
BoundedTexts(alphabet, n) == UNION {[1..k -> alphabet] : k \in 0..n}

\* A process of bot.py at rest, around the function under study.
InitFunction ==
    /\ impl = "bot"
    /\ file = MissingFile
    /\ proc = "running"
    /\ templates = EmptyDict
    /\ bootKind = "missing"
    /\ fresh = TRUE
    /\ everMutated = FALSE
    /\ lastSet = [u \in UserIds |-> None]
    /\ lastOp = NoOp
    /\ own = [u \in UserIds |-> None]
    /\ creds = [api_key |-> TRUE, folder_id |-> TRUE]
    /\ PipelineIdle
    /\ SchedulerIdle
    /\ AuthoringIdle
    /\ fnOut = << >>

ExtractAlphabet == {"https://", "http://", "a", " "}

InitExtract ==
    /\ InitFunction
    /\ fnIn \in BoundedTexts(ExtractAlphabet, MaxTextLen)
    /\ fnArg \in FetchOutcomes

\* extract_url_content is applied to the input.
ApplyExtract ==
    /\ fnOut = << >>
    /\ fnOut' = <<extract_url_content(fnIn, fnArg)>>
    /\ UNCHANGED <<storeVars, pipeVars, schedVars, fnIn, fnArg, authVars>>

SpecExtract == InitExtract /\ [][ApplyExtract]_vars

SanitizeAlphabet ==
    {"<b>", "</b>", "<div>", "</div>", "<h1>", "<body>", "\n", " ", Fence,
     "html", "http://", "x.example", BS}

InitSanitize ==
    /\ InitFunction
    /\ fnIn \in BoundedTexts(SanitizeAlphabet, MaxSanLen)
    /\ fnArg = NoFetch

\* The sanitizer is applied, first to the input and then to its own result.
ApplySanitize ==
    /\ Len(fnOut) < 2
    /\ fnOut' = Append(fnOut, sanitize(IF fnOut = << >> THEN fnIn
                                       ELSE fnOut[Len(fnOut)]))
    /\ UNCHANGED <<storeVars, pipeVars, schedVars, fnIn, fnArg, authVars>>

SpecSanitize == InitSanitize /\ [][ApplySanitize]_vars

\* Well-formed hyperlinks: <a href="address">label</a>, the label a text
\* without tags that may name an address itself.
Addresses == {<<scheme, rest>> : scheme \in Schemes, rest \in {BS, "x.example"}}
LabelAlphabet == {"click", " ", "http://", BS, "x.example"}

Hyperlink(address, label) ==
    AOpen \o address \o <<AQuote>> \o label \o <<AClose>>

InitLinks ==
    /\ InitFunction
    /\ fnIn \in {Hyperlink(a, l) : a \in Addresses,
                                   l \in BoundedTexts(LabelAlphabet, MaxLabelLen)}
    /\ fnArg = NoFetch

\* format_contact_links is applied to the input.
ApplyLinks ==
    /\ fnOut = << >>
    /\ fnOut' = <<format_contact_links(fnIn)>>
    /\ UNCHANGED <<storeVars, pipeVars, schedVars, fnIn, fnArg, authVars>>

SpecLinks == InitLinks /\ [][ApplyLinks]_vars

-----------------------------------------------------------------------------
(* Authoring: the conversations in which a user sets the template and the  *)
(* description.                                                            *)
(*                                                                         *)
(* bot.py: main() adds the handlers to one group in the order              *)
(*   /start, /generate, /cancel, template_conv_handler,                    *)
(*   description_conv_handler, button_callback, handle_vacancy,            *)
(* and the Application gives an update to the first handler of the group   *)
(* that accepts it.  A ConversationHandler accepts an update if the user   *)
(* holds no state and an entry point matches, or if a handler of the       *)
(* user's state or a fallback matches.  The value a callback returns is a  *)
(* new state only when a ConversationHandler ran the callback.             *)
(* main.py: _register_handlers registers on_start, ask_template,           *)
(* show_template, the two state handlers and generate_response in that     *)
(* order, and the first whose filters accept the message handles it.       *)
(* Telegram delivers the text of a message without white space around it   *)
(* and never delivers an empty text.                                       *)

MessageTexts == {<<"T1">>, <<"D1">>}

\* What a user can send.  bot.py: commands, presses of inline buttons and
\* plain text.  main.py: /start, the texts of the two menu buttons and
\* any other text.
Updates ==
    IF impl = "bot"
    THEN {"/start", "/generate", "/cancel", "set_template", "set_description",
          "view_template", "text"}
    ELSE {"/start", "update template", "show current template", "text"}

\* Some conversation holds a state for the user.
Authoring(c) ==
    c.template_conv # "END" \/ c.description_conv # "END" \/ c.state # "none"

By(handler, via) == [handler |-> handler, via |-> via]

\* bot.py: the handler that gets the update of a user whose conversations
\* stand at c, and the handler of the group that runs it.
bot_dispatch(c, update) ==
    IF update = "/start" THEN By("start", "application")
    ELSE IF update = "/generate" THEN By("generate_command", "application")
    ELSE IF update = "/cancel" THEN By("cancel", "application")
    ELSE IF update = "text"
    THEN IF c.template_conv = "TEMPLATE_INPUT"
         THEN By("receive_template", "template_conv_handler")
         ELSE IF c.template_conv = "DESCRIPTION_INPUT"
         THEN By("receive_template_description", "template_conv_handler")
         ELSE IF c.description_conv = "DESCRIPTION_EDIT_INPUT"
         THEN By("receive_description_update", "description_conv_handler")
         ELSE By("handle_vacancy", "application")
    ELSE IF update = "set_template" /\ c.template_conv = "END"
    THEN By("button_callback", "template_conv_handler")
    ELSE IF update = "set_description" /\ c.description_conv = "END"
    THEN By("button_callback", "description_conv_handler")
    ELSE By("button_callback", "application")

\* main.py: the handler that gets the message of a user in FSM state c.state.
main_dispatch(c, update) ==
    IF update = "/start" THEN By("on_start", "dispatcher")
    ELSE IF update = "update template" THEN By("ask_template", "dispatcher")
    ELSE IF update = "show current template" THEN By("show_template", "dispatcher")
    ELSE IF c.state = "waiting_template" THEN By("receive_template", "dispatcher")
    ELSE IF c.state = "waiting_description" THEN By("receive_description", "dispatcher")
    ELSE By("generate_response", "dispatcher")

dispatch(c, update) ==
    IF impl = "bot" THEN bot_dispatch(c, update) ELSE main_dispatch(c, update)

\* The state of the conversation that ran a callback, once the callback has
\* returned new_state (None: the state stays).
Returned(c, via, new_state) ==
    IF new_state = "None" THEN c
    ELSE IF via = "template_conv_handler" THEN [c EXCEPT !.template_conv = new_state]
    ELSE IF via = "description_conv_handler"
    THEN [c EXCEPT !.description_conv = new_state]
    ELSE c

\* An update of user u arrives at the running program and goes to handler h.
Arrives(u, update, h) ==
    /\ proc = "running"
    /\ handled.n < MaxUpdates
    /\ update \in Updates
    /\ dispatch(conv[u], update).handler = h

\* The record of the update just handled.
Handled(u, update, text, h) ==
    handled' = [user |-> u, update |-> update, text |-> text, handler |-> h,
                conv |-> conv[u], session |-> session[u],
                before |-> templates, fileBefore |-> file, n |-> handled.n + 1]

InitAuthoring ==
    /\ impl \in {"bot", "main"}
    /\ templates \in UNION {[{str(u) : u \in S} -> {Entry(<<"T2">>, <<"D1">>)}]
                            : S \in SUBSET UserIds}
    /\ file = JsonFile(json_dump(templates))
    /\ proc = "running"
    /\ bootKind = "json"
    /\ fresh = TRUE
    /\ everMutated = FALSE
    /\ lastSet = [u \in UserIds |-> None]
    /\ lastOp = NoOp
    /\ own = [u \in UserIds |-> None]
    /\ creds = [api_key |-> TRUE, folder_id |-> TRUE]
    /\ PipelineIdle
    /\ SchedulerIdle
    /\ AuthoringIdle
    /\ FunctionIdle

\* bot.py: start, generate_command and the presses that button_callback
\* answers with a text only.  None touches user_data, a conversation or the
\* store.
OtherUpdate(u, update) ==
    /\ impl = "bot"
    /\ update \in {"/start", "/generate", "view_template"}
    /\ Arrives(u, update, dispatch(conv[u], update).handler)
    /\ session' = [session EXCEPT ![u].cancelled = FALSE]
    /\ Handled(u, update, << >>, dispatch(conv[u], update).handler)
    /\ UNCHANGED <<conv, user_data>>
    /\ UNCHANGED <<storeVars, pipeVars, schedVars, fnVars>>

\* bot.py: cancel.  user_data is cleared, the reply is sent and END is
\* returned to the handler that ran the callback.
Cancel(u) ==
    /\ impl = "bot"
    /\ Arrives(u, "/cancel", "cancel")
    /\ user_data' = [user_data EXCEPT ![u] = NoneStr]
    /\ conv' = [conv EXCEPT ![u] =
                   Returned(conv[u], dispatch(conv[u], "/cancel").via, "END")]
    /\ session' = [session EXCEPT
                      ![u].cancelled = Authoring(conv[u]),
                      ![u].left = @ \/ conv[u].template_conv = "DESCRIPTION_INPUT"]
    /\ Handled(u, "/cancel", << >>, "cancel")
    /\ UNCHANGED <<storeVars, pipeVars, schedVars, fnVars>>

\* bot.py: button_callback for set_template and set_description.  sent: the
\* calls to Telegram before the return succeed (else they raise and no
\* value is returned).
Press(u, button, sent) ==
    /\ impl = "bot"
    /\ button \in {"set_template", "set_description"}
    /\ Arrives(u, button, "button_callback")
    /\ LET via == dispatch(conv[u], button).via
           new_state ==
               IF ~sent THEN "None"
               ELSE IF button = "set_template" THEN "TEMPLATE_INPUT"
               ELSE IF get_template(u) = None THEN "None"
               ELSE "DESCRIPTION_EDIT_INPUT"
           after == Returned(conv[u], via, new_state)
       IN  /\ conv' = [conv EXCEPT ![u] = after]
           /\ session' = [session EXCEPT ![u] =
                             IF after.template_conv # conv[u].template_conv
                             THEN NoSession
                             ELSE [@ EXCEPT !.cancelled = FALSE]]
    /\ Handled(u, button, << >>, "button_callback")
    /\ UNCHANGED user_data
    /\ UNCHANGED <<storeVars, pipeVars, schedVars, fnVars>>

\* main.py: on_start and show_template clear the FSM state and its data,
\* then answer.
Menu(u, update) ==
    /\ impl = "main"
    /\ update \in {"/start", "show current template"}
    /\ Arrives(u, update, dispatch(conv[u], update).handler)
    /\ conv' = [conv EXCEPT ![u].state = "none"]
    /\ user_data' = [user_data EXCEPT ![u] = NoneStr]
    /\ session' = [session EXCEPT
                      ![u].cancelled = FALSE,
                      ![u].left = @ \/ conv[u].state = "waiting_description"]
    /\ Handled(u, update, << >>, dispatch(conv[u], update).handler)
    /\ UNCHANGED <<storeVars, pipeVars, schedVars, fnVars>>

\* main.py: ask_template clears the FSM state, answers, and sets
\* waiting_template.
AskTemplate(u, sent) ==
    /\ impl = "main"
    /\ Arrives(u, "update template", "ask_template")
    /\ conv' = [conv EXCEPT ![u].state = IF sent THEN "waiting_template" ELSE "none"]
    /\ user_data' = [user_data EXCEPT ![u] = NoneStr]
    /\ session' = [session EXCEPT ![u] =
                      IF sent THEN NoSession
                      ELSE [@ EXCEPT !.cancelled = FALSE,
                                     !.left = @ \/ conv[u].state = "waiting_description"]]
    /\ Handled(u, "update template", << >>, "ask_template")
    /\ UNCHANGED <<storeVars, pipeVars, schedVars, fnVars>>

\* A receive_template that already writes the store, with no description.
ReceiveTemplate_commit(u, t, sent) ==
    /\ Arrives(u, "text", "receive_template")
    /\ t \in MessageTexts
    /\ user_data' = [user_data EXCEPT ![u] = IF impl = "bot" THEN t ELSE strip(t)]
    /\ conv' = [conv EXCEPT ![u] =
                   IF ~sent THEN @
                   ELSE IF impl = "bot"
                   THEN Returned(@, dispatch(@, "text").via, "DESCRIPTION_INPUT")
                   ELSE [@ EXCEPT !.state = "waiting_description"]]
    /\ session' = [session EXCEPT ![u] =
                      [received |-> t, left |-> FALSE, cancelled |-> FALSE]]
    /\ Handled(u, "text", t, "receive_template")
    /\ CallSetTemplate(u, user_data'[u], << >>)
    /\ UNCHANGED <<pipeVars, schedVars, fnVars>>

\* receive_template (bot.py, main.py): the text is kept for the user, the
\* reply is sent and the conversation goes on to the description.
ReceiveTemplate(u, t, sent) ==
    /\ Arrives(u, "text", "receive_template")
    /\ t \in MessageTexts
    /\ user_data' = [user_data EXCEPT ![u] = IF impl = "bot" THEN t ELSE strip(t)]
    /\ conv' = [conv EXCEPT ![u] =
                   IF ~sent THEN @
                   ELSE IF impl = "bot"
                   THEN Returned(@, dispatch(@, "text").via, "DESCRIPTION_INPUT")
                   ELSE [@ EXCEPT !.state = "waiting_description"]]
    /\ session' = [session EXCEPT ![u] =
                      [received |-> t, left |-> FALSE, cancelled |-> FALSE]]
    /\ Handled(u, "text", t, "receive_template")
    /\ UNCHANGED <<storeVars, pipeVars, schedVars, fnVars>>

\* receive_template_description (bot.py): with a kept text, set_template
\* and the reply; then user_data is cleared and the conversation ends.
\* receive_description (main.py): set_template with the kept text (or the
\* empty text), the answer, then the FSM state is cleared.
ReceiveDescription(u, t, sent) ==
    LET h == IF impl = "bot" THEN "receive_template_description"
             ELSE "receive_description"
        template == user_data[u]
        description == IF impl = "bot" THEN t ELSE strip(t)
        saves == impl = "main" \/ template # NoneStr
        ends == sent \/ ~saves
    IN  /\ Arrives(u, "text", h)
        /\ t \in MessageTexts
        /\ IF saves THEN CallSetTemplate(u, template, description)
           ELSE UNCHANGED storeVars
        /\ user_data' = [user_data EXCEPT ![u] = IF ends THEN NoneStr ELSE @]
        /\ conv' = [conv EXCEPT ![u] =
                       IF ~ends THEN @
                       ELSE IF impl = "bot"
                       THEN Returned(@, dispatch(@, "text").via, "END")
                       ELSE [@ EXCEPT !.state = "none"]]
        /\ session' = [session EXCEPT ![u] =
                          IF ends THEN NoSession ELSE [@ EXCEPT !.cancelled = FALSE]]
        /\ Handled(u, "text", t, h)
        /\ UNCHANGED <<pipeVars, schedVars, fnVars>>

\* bot.py: receive_description_update.
ReceiveDescriptionUpdate(u, t, sent) ==
    /\ impl = "bot"
    /\ Arrives(u, "text", "receive_description_update")
    /\ t \in MessageTexts
    /\ IF get_template(u) = None THEN UNCHANGED storeVars
       ELSE CallUpdateDescription(u, t)
    /\ conv' = [conv EXCEPT ![u] =
                   IF sent THEN Returned(@, dispatch(@, "text").via, "END") ELSE @]
    /\ session' = [session EXCEPT ![u].cancelled = FALSE]
    /\ Handled(u, "text", t, "receive_description_update")
    /\ UNCHANGED user_data
    /\ UNCHANGED <<pipeVars, schedVars, fnVars>>

\* handle_vacancy (bot.py) and generate_response (main.py, which first
\* clears the FSM state): the text is a vacancy.  What the handler answers
\* is the subject of SpecPipeline.
HandleVacancy(u, t) ==
    LET h == IF impl = "bot" THEN "handle_vacancy" ELSE "generate_response"
    IN  /\ Arrives(u, "text", h)
        /\ t \in MessageTexts
        /\ conv' = [conv EXCEPT ![u].state = "none"]
        /\ user_data' = [user_data EXCEPT ![u] = IF impl = "bot" THEN @ ELSE NoneStr]
        /\ session' = [session EXCEPT ![u].cancelled = FALSE]
        /\ Handled(u, "text", t, h)
        /\ UNCHANGED <<storeVars, pipeVars, schedVars, fnVars>>

AuthoringNext ==
    \/ \E u \in UserIds, update \in Updates : OtherUpdate(u, update)
    \/ \E u \in UserIds : Cancel(u)
    \/ \E u \in UserIds, button \in Updates, sent \in BOOLEAN : Press(u, button, sent)
    \/ \E u \in UserIds, update \in Updates : Menu(u, update)
    \/ \E u \in UserIds, sent \in BOOLEAN : AskTemplate(u, sent)
    \/ \E u \in UserIds, t \in MessageTexts, sent \in BOOLEAN : ReceiveTemplate(u, t, sent)
    \/ \E u \in UserIds, t \in MessageTexts, sent \in BOOLEAN : ReceiveDescription(u, t, sent)
    \/ \E u \in UserIds, t \in MessageTexts, sent \in BOOLEAN :
          ReceiveDescriptionUpdate(u, t, sent)
    \/ \E u \in UserIds, t \in MessageTexts : HandleVacancy(u, t)

SpecAuthoring == InitAuthoring /\ [][AuthoringNext]_vars

-----------------------------------------------------------------------------
(* Claims about the template store (checked under Spec).                   *)

\* C1: once set_template(u, t, d) has returned, get_template(u) returns
\* exactly (t, d), also from a store constructed anew from the persisted
\* file, as long as no later write for u has happened.
C1_SetThenGet ==
    proc = "running" =>
        \A u \in UserIds :
            lastSet[u] # None =>
                LET e == get_template(u)
                IN  /\ e # None
                    /\ TextOf(e) = lastSet[u].t
                    /\ DescOf(e) = lastSet[u].d

\* C1 witness: a store constructed anew after a set_template still running.
C1_Witness ==
    /\ proc = "running"
    /\ \E u \in UserIds : lastSet[u] # None /\ lastSet[u].reloaded

\* C2: constructing the store tolerates a missing and a corrupt file: the
\* construction does not raise and the store starts empty.
C2_StartupTolerates ==
    (fresh /\ bootKind \in {"missing", "corrupt"}) =>
        /\ proc = "running"
        /\ \A u \in UserIds : get_template(u) = None

\* C5: once a mutation has completed, the mapping in the persisted file
\* equals the mapping in memory, whenever no store call is in progress.
C5_FileEqualsMemory ==
    (proc = "running" /\ everMutated) =>
        /\ file.kind = "json"
        /\ load(file).value = templates

\* C5 witness: an update_description that changed an entry has returned.
C5_Witness ==
    /\ proc = "running"
    /\ everMutated
    /\ lastOp.kind = "update_description"
    /\ lastOp.before # templates

\* C6: update_description(u, d) for a user without a template is a no-op:
\* no entry is created, nothing is written, get_template(u) returns none.
C6_UpdateWithoutTemplate ==
    (lastOp.kind = "update_description" /\ str(lastOp.user) \notin DOMAIN lastOp.before) =>
        /\ proc = "running"
        /\ templates = lastOp.before
        /\ file = lastOp.fileBefore
        /\ get_template(lastOp.user) = None

\* C6 witness: such a call was made on a store that holds another user's entry.
C6_Witness ==
    /\ lastOp.kind = "update_description"
    /\ str(lastOp.user) \notin DOMAIN lastOp.before
    /\ lastOp.before # EmptyDict

\* The entries of the file, as json.load reads them.
FileEntries(f) == json_load(f.members)

\* Entry k is the same in the two mappings (present in both and equal, or absent in both).
SameEntry(a, b, k) == DictGet(a, k) = DictGet(b, k)

\* C7: update_description(u, d) for a user with a template changes only u's
\* description: u's template text and every other user's entry are unchanged,
\* in memory and in the persisted file.
C7_UpdateChangesOnlyDescription ==
    (lastOp.kind = "update_description" /\ str(lastOp.user) \in DOMAIN lastOp.before) =>
        LET k == str(lastOp.user)
            fb == FileEntries(lastOp.fileBefore)
            fa == FileEntries(file)
        IN  /\ DOMAIN templates = DOMAIN lastOp.before
            /\ templates[k].example = lastOp.before[k].example
            /\ \A u \in UserIds : u # lastOp.user =>
                   SameEntry(templates, lastOp.before, str(u))
            /\ file.kind = "json"
            /\ DOMAIN fa = DOMAIN fb
            /\ fa[k].example = fb[k].example
            /\ \A u \in UserIds : u # lastOp.user => SameEntry(fa, fb, str(u))

\* C7 witness: a user's description was changed while another user has an entry.
C7_Witness ==
    /\ lastOp.kind = "update_description"
    /\ str(lastOp.user) \in DOMAIN lastOp.before
    /\ Cardinality(DOMAIN lastOp.before) >= 2
    /\ templates[str(lastOp.user)].description
           # lastOp.before[str(lastOp.user)].description

-----------------------------------------------------------------------------
(* Claims about generation (checked under SpecPipeline).                   *)

\* The POST did not yield a text: transport error or timeout, a status
\* other than success, or a body without result.alternatives[0].message.text.
FailedResponse(resp) ==
    \/ resp.kind = "transport_error"
    \/ resp.status # 200
    \/ resp.body # "text"

NoCredentials == [api_key |-> FALSE, folder_id |-> FALSE]

\* C3: the generation call never raises to its caller; when the POST fails
\* (transport error or timeout, non-success status, response of another
\* shape) it returns the same fallback message as the call made without
\* credentials.
C3_GenerateFailsOpen ==
    gen.done =>
        /\ ~gen.r.raised
        /\ (configured(creds) /\ FailedResponse(gen.resp)) =>
               /\ ~generate(NoCredentials, gen.resp).raised
               /\ gen.r.value = generate(NoCredentials, gen.resp).value

\* C4: without generation credentials the generation call makes no network
\* call and returns a string that contains the template text and the new
\* content verbatim.
C4_NoCredentialsFallback ==
    (gen.done /\ ~configured(creds)) =>
        /\ ~gen.r.raised
        /\ gen.r.posts = 0
        /\ Contains(gen.r.value, req.example)
        /\ Contains(gen.r.value, content)

\* C9: whenever a prompt is built for a user message, it contains verbatim
\* the stored template text, the stored description, the extracted content
\* and the instructions the user appended to the message, whether or not
\* the message held a URL that was fetched.
C9_PromptCarriesInputs ==
    (gen.done /\ gen.r.built) =>
        /\ Contains(gen.r.prompt, req.example)
        /\ Contains(gen.r.prompt, req.description)
        /\ Contains(gen.r.prompt, content)
        /\ Contains(gen.r.prompt, req.instr)

-----------------------------------------------------------------------------
(* Claims about extraction (checked under SpecExtract).                    *)

\* Position i of text starts a URL: a scheme directly followed by a
\* character that is not white space.
UrlAt(text, i) ==
    /\ i < Len(text)
    /\ text[i] \in Schemes
    /\ ~IsSpace(text[i + 1])

HasUrl(text) == \E i \in 1..Len(text) : UrlAt(text, i)

\* The leftmost URL of a text that has one: from the first position that
\* starts a URL up to the next white space or the end of the text.
FirstUrl(text) ==
    LET i == CHOOSE k \in 1..Len(text) :
                 UrlAt(text, k) /\ \A h \in 1..(k - 1) : ~UrlAt(text, h)
        j == CHOOSE k \in i..Len(text) :
                 /\ \A h \in i..k : text[h] \notin Whitespace
                 /\ (k = Len(text) \/ text[k + 1] \in Whitespace)
    IN  SubSeq(text, i, j)

\* C8: extract returns (input, no URL) for an input without URL, (input,
\* first URL) when the fetch of the URL fails, and (cleaned page text, first
\* URL) when it succeeds; the source URL is set exactly when the input
\* contains a URL.
C8_ExtractCases ==
    fnOut # << >> =>
        LET out == fnOut[1]
        IN  /\ ~HasUrl(fnIn) => (out.text = fnIn /\ out.url = NoneStr)
            /\ (HasUrl(fnIn) /\ fnArg.status \in FetchFailures) =>
                   (out.text = fnIn /\ out.url = FirstUrl(fnIn))
            /\ (HasUrl(fnIn) /\ fnArg.status = "ok") =>
                   (out.text = page_text(fnArg.page) /\ out.url = FirstUrl(fnIn))
            /\ (out.url # NoneStr) <=> HasUrl(fnIn)

\* C8 witness: extract was applied to a text with two different URLs, the
\* fetch succeeded and the page had text.
C8_Witness ==
    /\ fnOut # << >>
    /\ Len(re_findall_url(fnIn, 1)) = 2
    /\ re_findall_url(fnIn, 1)[1] # re_findall_url(fnIn, 1)[2]
    /\ fnArg.status = "ok"
    /\ fnOut[1].text # << >>
    /\ fnOut[1].url = re_findall_url(fnIn, 1)[1]

-----------------------------------------------------------------------------
(* Claims about the sanitizer (checked under SpecSanitize).                *)

\* C10: sanitize is idempotent: sanitizing a sanitized text leaves it as
\* it is.
C10_SanitizeIdempotent ==
    Len(fnOut) = 2 => fnOut[2] = fnOut[1]

\* The tag tokens of the model, and those of the set the sanitizer is to
\* let through: bold, italic, underline, strikethrough, block quote and
\* hyperlink.
Tags ==
    LineBreakTags \cup SpanTags \cup DroppedTags \cup KeptTags
        \cup {"<strong>", "</strong>", "<em>", "</em>"}

AllowedTags ==
    {"<b>", "</b>", "<i>", "</i>", "<u>", "</u>", "<s>", "</s>",
     "<blockquote>", "</blockquote>", "<a>", "<a", AClose}

\* C11: the output of sanitize holds no tag outside the allowed set: every
\* tag of another element that the input holds is absent from the output.
C11_OnlyAllowedTags ==
    fnOut # << >> =>
        \A i \in 1..Len(fnOut[1]) :
            fnOut[1][i] \in Tags => fnOut[1][i] \in AllowedTags

\* Opening and closing tag of the wrappers outside the allowed set that the
\* study feeds to the sanitizer.
DisallowedWrappers == {<<"<div>", "</div>">>, <<"<h1>", "</h1>">>, <<"<p>", "</p>">>}

\* Tokens a reader sees: neither tag nor white space nor fence.
VisibleToken(tok) == tok \notin Tags \cup Whitespace \cup {Fence}

\* text is a disallowed opening tag, visible text, and the closing tag.
IsWrapped(text) ==
    /\ Len(text) >= 3
    /\ \E w \in DisallowedWrappers : text[1] = w[1] /\ text[Len(text)] = w[2]
    /\ \A i \in 2..(Len(text) - 1) : VisibleToken(text[i])

Inner(text) == SubSeq(text, 2, Len(text) - 1)

\* C12: when sanitize discards a disallowed wrapper tag it keeps the text
\* inside: for an input made of an opening tag, text and the closing tag
\* the output contains the text.
C12_WrapperKeepsText ==
    (fnOut # << >> /\ IsWrapped(fnIn)) => Contains(fnOut[1], Inner(fnIn))

\* Position i of text starts an address: a scheme directly followed by a
\* token that is not white space.
AddressAt(text, i) ==
    /\ i < Len(text)
    /\ text[i] \in Schemes
    /\ ~IsSpace(text[i + 1])

\* Position i of text lies inside a hyperlink: an anchor opens before it
\* and is closed only after it.
InsideAnchor(text, i) ==
    /\ \E j \in 1..(i - 1) :
           text[j] = "<a" /\ \A k \in j..i : text[k] # AClose
    /\ \E j \in (i + 1)..Len(text) : text[j] = AClose

\* C13: after sanitize every http(s) address of the output lies inside a
\* hyperlink: the addresses left bare have been wrapped.
C13_AddressesAnchored ==
    fnOut # << >> =>
        \A i \in 1..Len(fnOut[1]) :
            AddressAt(fnOut[1], i) => InsideAnchor(fnOut[1], i)

-----------------------------------------------------------------------------
(* Claims about link re-anchoring (checked under SpecLinks).               *)

\* C14: the bare-link rule never wraps an address that already lies inside
\* an anchor: a well-formed hyperlink around an address comes out of
\* format_contact_links unchanged, without a nested or doubled anchor.
C14_NoRewrap ==
    fnOut # << >> => fnOut[1] = fnIn

-----------------------------------------------------------------------------
(* Claims about the message handlers (checked under SpecPipeline).         *)

\* C15: a vacancy message from a user without a stored template gets the
\* 'add a template first' prompt and nothing else happens: no page fetch,
\* no generation call, and the store is as it was.
C15_NoTemplateNoPipeline ==
    /\ [](  (req.user # 0 /\ ~req.has_template) =>
                /\ outbox = <<<<"{add a template first}">>>>
                /\ pc = "idle"
                /\ ~parsed.done /\ parsed.gets = 0
                /\ ~gen.done /\ gen.r.posts = 0 )
    /\ [][ ~req'.has_template => UNCHANGED <<templates, file>> ]_vars

\* C15 witness: a user without a template sent a link while another user
\* has a template, and the handler has returned.
C15_Witness ==
    /\ req.user # 0
    /\ ~req.has_template
    /\ HasUrl(req.text)
    /\ templates # EmptyDict
    /\ pc = "idle"

\* The failure message a handler sends: the generic one of handle_vacancy,
\* the text of the exception in generate_response.
FailureMessage ==
    IF impl = "bot" THEN <<"{processing failed, try again}">>
    ELSE <<"{Failed to generate text:}", " ">> \o gen.r.value

\* The generated message is among the messages the user holds.
AnnouncementDelivered ==
    /\ gen.done
    /\ ~gen.r.raised
    /\ \E i \in 1..Len(outbox) : outbox[i] = gen.r.value

\* C16: for a vacancy message of a user with a template, whichever step
\* fails (page fetch, generation call, deletion of the progress note,
\* delivery of the generated message), the handler ends with the generated
\* message or the failure message delivered, and no exception leaves it.
C16_FailuresAbsorbed ==
    (/\ result.ended
     /\ req.has_template
     /\ result.failed \in {"none", "delete", "send"}
     /\ ~result.edit_failed) =>
        /\ ~result.escaped
        /\ \/ AnnouncementDelivered
           \/ \E i \in 1..Len(outbox) : outbox[i] = FailureMessage

-----------------------------------------------------------------------------
(* Claims about scheduling (checked under SpecSchedule).                   *)

\* The handler of user v can take its next step.
CanProceed(v) ==
    \/ phase[v] = "none"
    \/ phase[v] = "queued" /\ ENABLED (\E link \in BOOLEAN : HandlerStarts(v, link))
    \/ phase[v] = "fetch" /\ ENABLED FetchReturns(v)
    \/ phase[v] = "generate" /\ ENABLED GenerationReturns(v)
    \/ phase[v] = "send" /\ ENABLED HandlerEnds(v)

\* C17: while the page fetch or the generation call of one user is
\* outstanding, the handler of another user is not held up: it can start
\* and take each of its steps before that call returns.
C17_NoStall ==
    \A u \in UserIds, v \in UserIds :
        (u # v /\ phase[u] \in Calling) => CanProceed(v)

\* What the generation step of bot.py has before any sanitizing: the
\* trimmed text of the model on success, the fallback message otherwise.
RawCandidate ==
    IF configured(creds) /\ ~FailedResponse(gen.resp)
    THEN strip(gen.resp.text)
    ELSE generate_simple_message(parsed.text, req.example, NoneStr)

\* C18: every text that handle_vacancy delivers as the announcement, with
\* HTML parsing on, has passed through the sanitizer after generation, on
\* the path of a successful completion and on the path of the fallback
\* message alike.
C18_DeliveredIsSanitized ==
    (impl = "bot" /\ result.ended /\ AnnouncementDelivered) =>
        gen.r.value = sanitize(RawCandidate)

-----------------------------------------------------------------------------
(* Claims about writes of several users (checked under Spec).  A store     *)
(* call holds no await, so the calls of different handlers interleave as   *)
(* whole calls, in any order.                                              *)

\* The entry e holds the text and the description of the write w.
Matches(e, w) == e # None /\ TextOf(e) = w.t /\ DescOf(e) = w.d

\* C19: however the set_template and update_description calls of different
\* users interleave, no update is lost: once the calls have returned, each
\* user's entry in memory and in the persisted file is the one the user's
\* own last write made.
C19_NoLostUpdate ==
    \A u \in UserIds :
        own[u] # None =>
            /\ file.kind = "json"
            /\ Matches(DictGet(FileEntries(file), str(u)), own[u])
            /\ proc = "running" => Matches(get_template(u), own[u])

\* C19 witness: two users have written, the one after the other, and the
\* earlier writer's entry differs from the later one's.
C19_Witness ==
    /\ proc = "running"
    /\ \E u \in UserIds, v \in UserIds :
           /\ u # v
           /\ own[u] # None /\ own[v] # None /\ own[u] # own[v]
           /\ lastOp.user = v
           /\ lastOp.kind \in {"set_template", "update_description"}
           /\ str(u) \in DOMAIN lastOp.before

-----------------------------------------------------------------------------
(* Claims about retries (checked under SpecPipeline).                      *)

\* C20: there is no retry: for one vacancy message handle_vacancy issues at
\* most one page fetch, of the first URL of the message, and at most one
\* generation request, whatever their outcomes; a failed fetch leaves the
\* raw message as content and a failed generation call gives the fallback
\* message.
C20_NoRetry ==
    (impl = "bot" /\ result.ended /\ req.has_template) =>
        /\ parsed.gets <= 1
        /\ gen.r.posts <= 1
        /\ parsed.gets = 1 => (HasUrl(req.text) /\ parsed.url = FirstUrl(req.text))
        /\ parsed.fetch \in FetchFailures => parsed.text = req.text
        /\ (configured(creds) /\ FailedResponse(gen.resp)) =>
               gen.r.value = generate_simple_message(parsed.text, req.example, NoneStr)

\* C20 witness: a message with a link was handled to the end with the page
\* fetch failing and the generation call failing.
C20_Witness ==
    /\ impl = "bot"
    /\ result.ended
    /\ req.has_template
    /\ parsed.fetch \in FetchFailures
    /\ parsed.gets = 1
    /\ configured(creds)
    /\ FailedResponse(gen.resp)
    /\ gen.r.posts = 1

-----------------------------------------------------------------------------
\* C21: while the process keeps running, no store call removes an entry: a
\* user for whom get_template returns a template before a step has one after
\* it too (set_template and update_description only overwrite).
C21_NeverDeleted ==
    [][(proc = "running" /\ proc' = "running") =>
         \A u \in UserIds :
            get_template(u) # None => str(u) \in DOMAIN templates']_vars

\* C21 witness: a user held a template, another user then wrote one, and
\* the first user still holds a template.
C21_Witness ==
    /\ proc = "running"
    /\ lastOp.kind = "set_template"
    /\ \E u \in UserIds :
          /\ u # lastOp.user
          /\ str(u) \in DOMAIN lastOp.before
          /\ get_template(u) # None

-----------------------------------------------------------------------------
(* Claims about authoring (checked under SpecAuthoring).                   *)

\* C22: once /cancel of a user in template authoring or description editing
\* has been handled, no conversation holds a state for the user, and the
\* plain text the user sends next goes to the vacancy handler, not to a
\* handler that takes it as template or description.
C22_CancelEndsAuthoring ==
    /\ (handled.update = "/cancel" /\ Authoring(handled.conv))
          => ~Authoring(conv[handled.user])
    /\ (handled.update = "text" /\ handled.session.cancelled)
          => handled.handler \in {"handle_vacancy", "generate_response"}

\* The update just handled has changed the store (memory or file).
StoreChanged ==
    handled.n > 0 /\ (templates # handled.before \/ file # handled.fileBefore)

\* The handlers that take a text as the description closing an authoring.
CommitHandlers == {"receive_template_description", "receive_description"}

\* The handlers through which a user leaves or cancels an authoring.
LeaveHandlers == {"cancel", "on_start", "show_template", "ask_template"}

\* C23: authoring commits in one step.  The handler that receives the
\* template text leaves the store as it was; within authoring the store
\* changes only in the handler that receives the description, and then the
\* user's entry becomes (the template text received in this session, that
\* description) and nothing else changes; leaving or cancelling changes
\* nothing, and a session left after the template text writes nothing
\* later either.
C23_CommitInOneStep ==
    /\ handled.handler = "receive_template" => ~StoreChanged
    /\ handled.handler \in LeaveHandlers => ~StoreChanged
    /\ StoreChanged =>
          handled.handler \in CommitHandlers \cup {"receive_description_update"}
    /\ (handled.handler \in CommitHandlers /\ StoreChanged) =>
          /\ ~handled.session.left
          /\ templates = DictSet(handled.before, str(handled.user),
                                 Entry(handled.session.received, handled.text))
          /\ file = JsonFile(json_dump(templates))

\* C23 witness: a user who had an entry sent a template text and then a
\* description, and the entry is now that pair.
C23_Witness ==
    /\ handled.handler \in CommitHandlers
    /\ str(handled.user) \in DOMAIN handled.before
    /\ handled.session.received # NoneStr
    /\ get_template(handled.user) = Entry(handled.session.received, handled.text)
    /\ get_template(handled.user) # handled.before[str(handled.user)]

====
